---- MODULE Spec2Model ----
(***************************************************************************)
(* State-machine model of gsdmm.MovieGroupProcess (src/gsdmm/mgp_array.py): *)
(* the dense-array GSDMM engine -- construction, fit (random initialisation *)
(* and the Gibbs passes with the convergence test), score, _sample,         *)
(* choose_best_label, save and load.                                        *)
(*                                                                          *)
(* Conventions.                                                             *)
(*  - Cluster labels and token ids are 0-based as in the code; TLA+         *)
(*    sequences are 1-based, so document i of the code is corpus[i + 1].    *)
(*  - alpha and beta are exact rationals [num, den]; a score is an exact    *)
(*    rational too, so floating point rounding and underflow are not        *)
(*    modelled; log(0) = -inf, log(x < 0) = nan and inf - inf = nan are.    *)
(*  - Python's None is the integer -1 (NoneVal).                            *)
(*  - An exception leaves the engine as the statements before the raise     *)
(*    left it and is reported in ret (ok = FALSE).                          *)
(***************************************************************************)
EXTENDS Integers, Sequences, FiniteSets, TLC

\* ------------------------------------------------------------------ bounds
MaxDocs == 2        \* documents per corpus
MaxFits == 2        \* fit calls on one engine
MaxIters == 2       \* largest n_iters offered to the constructor in Spec
FewDocs == 1        \* documents per corpus in SpecConv, SpecIO and SpecInfer
ConvExtra == 3      \* SpecConv offers n_iters up to ConvergenceFloor + ConvExtra

\* Tokens are small integers; a document is a token list.  The Dictionary
\* sorts the tokens of a document before it numbers or counts them, so only
\* non-decreasing token lists are enumerated.
Tokens == {1, 2}
Docs ==
  {<<>>} \cup {<<t>> : t \in Tokens}
         \cup {<<s, t>> : <<s, t>> \in {q \in Tokens \X Tokens : q[1] <= q[2]}}

RECURSIVE SeqsUpTo(_, _)
SeqsUpTo(S, n) ==
  IF n = 0 THEN {<<>>}
  ELSE LET shorter == SeqsUpTo(S, n - 1)
       IN  shorter \cup {Append(c, d) : c \in {x \in shorter : Len(x) = n - 1}, d \in S}

Corpora == SeqsUpTo(Docs, MaxDocs)
FewCorpora == SeqsUpTo(Docs, FewDocs)
\* the convergence test does not read the documents: SpecConv takes short ones
ShortCorpora == SeqsUpTo({d \in Docs : Len(d) <= 1}, FewDocs)
Paths == {"model"}

\* Hyperparameters offered to the constructor: valid ones and the ones the
\* specification calls invalid (K < 1, alpha <= 0, beta <= 0, n_iters < 1).
Tenth == [num |-> 1, den |-> 10]
Zero == [num |-> 0, den |-> 10]
KSet == {0, 1, 2}
AlphaSet == {Zero, Tenth}
BetaSet == {Zero, Tenth}
NItersSet == 0..MaxIters
TwinIters == {0, 1, 2}

NoneVal == 0 - 1
Raised == 0 - 1     \* _sample raised instead of returning a label

VARIABLES
  pc,                         \* "new" | "idle" | "init" | "doc" | "sample"
  K, alpha, beta, n_iters,    \* self.K, self.alpha, self.beta, self.n_iters
  number_docs, vocab_size,    \* self.number_docs, self.vocab_size
  cluster_doc_count,          \* self.cluster_doc_count        (m_z)
  cluster_word_count,         \* self.cluster_word_count       (n_z)
  cluster_word_distribution,  \* self.cluster_word_distribution (n_z_w)
  dictionary,                 \* self.dictionary: [set, id2token]
  corpus,                     \* self.corpus: bag-of-words documents
  d_z, i, iter,               \* fit locals d_z, i, _iter
  total_transfers,            \* fit local total_transfers
  cluster_count,              \* fit local cluster_count
  p,                          \* fit local p, the score vector of the removed doc
  moved,                      \* history: a document changed cluster in this fit
  nfits,                      \* fit calls made on this engine
  fs,                         \* durable storage: folder path -> files
  ret,                        \* outcome of the last call that returned or raised
  sparse,                     \* the sparse engine of example_under_the_hood.py,
                              \* when one is run beside this engine
  first                       \* history: the fit run of a first engine, when a
                              \* second engine is to be fed the same draws

engine == <<K, alpha, beta, n_iters, number_docs, vocab_size, cluster_doc_count,
            cluster_word_count, cluster_word_distribution, dictionary, corpus>>
locals == <<d_z, i, iter, total_transfers, cluster_count, p, moved>>
beside == <<sparse, first>>
vars == <<pc, engine, locals, nfits, fs, ret, beside>>

Range(n) == 0..(n - 1)

RECURSIVE Sum(_)
Sum(f) ==
  IF DOMAIN f = {} THEN 0
  ELSE LET x == CHOOSE y \in DOMAIN f : TRUE
       IN  f[x] + Sum([y \in DOMAIN f \ {x} |-> f[y]])

RECURSIVE Prod(_)
Prod(s) == IF s = <<>> THEN 1 ELSE Head(s) * Prod(Tail(s))

RECURSIVE SortedSeq(_)
SortedSeq(S) ==
  IF S = {} THEN <<>>
  ELSE LET x == CHOOSE y \in S : \A w \in S : y <= w
       IN  <<x>> \o SortedSeq(S \ {x})

\* ------------------------------------------------------------- Dictionary
\* gsdmm/dictionary.py is not among the sources; it is modelled from the
\* Vocabulary contract of the specification (gensim's Dictionary).
NoDictionary == [set |-> FALSE, id2token |-> <<>>]
NoSparse == [on |-> FALSE, m_z |-> <<>>, n_z |-> <<>>, n_z_w |-> <<>>]
NoFirst == [phase |-> "off", cfg |-> <<>>, docs |-> <<>>, trace |-> <<>>, pos |-> 0]

TokensOf(doc) == {doc[j] : j \in 1..Len(doc)}
IdsOf(id2token) == Range(Len(id2token))
Known(id2token) == {id2token[j] : j \in 1..Len(id2token)}
token2id(id2token, t) == (CHOOSE j \in 1..Len(id2token) : id2token[j] = t) - 1

RECURSIVE Dictionary(_)
Dictionary(docs_toks) ==
  IF docs_toks = <<>> THEN <<>>
  ELSE LET before == Dictionary(SubSeq(docs_toks, 1, Len(docs_toks) - 1))
           doc == docs_toks[Len(docs_toks)]
       IN  before \o SortedSeq(TokensOf(doc) \ Known(before))

Occurrences(doc, t) == Cardinality({j \in 1..Len(doc) : doc[j] = t})

\* (token_id, count) pairs by ascending id; tokens not in the dictionary are dropped
doc2bow(id2token, doc) ==
  LET ids == SortedSeq({w \in IdsOf(id2token) : id2token[w + 1] \in TokensOf(doc)})
  IN  [j \in 1..Len(ids) |-> <<ids[j], Occurrences(doc, id2token[ids[j] + 1])>>]

\* ---------------------------------------------------------------- __init__
Init ==
  /\ pc = "new"
  /\ K = 0 /\ alpha = Zero /\ beta = Zero /\ n_iters = 0
  /\ number_docs = NoneVal /\ vocab_size = NoneVal
  /\ cluster_doc_count = <<>> /\ cluster_word_count = <<>>
  /\ cluster_word_distribution = <<>>
  /\ dictionary = NoDictionary /\ corpus = <<>>
  /\ d_z = <<>> /\ i = 0 /\ iter = 0 /\ total_transfers = 0
  /\ cluster_count = 0 /\ p = <<>> /\ moved = FALSE
  /\ nfits = 0 /\ fs = <<>>
  /\ sparse = NoSparse /\ first = NoFirst
  /\ ret = [op |-> "none", arg |-> <<>>, ok |-> TRUE, status |-> "", val |-> <<>>, passes |-> 0, prob |-> <<>>]

\* the counts of an engine made after another one are the arrays of that one
NewEngineSharesCounts(k, a, b, n) ==
  /\ K' = k /\ alpha' = a /\ beta' = b /\ n_iters' = n
  /\ number_docs' = NoneVal /\ vocab_size' = NoneVal
  /\ cluster_doc_count' =
       IF DOMAIN cluster_doc_count = Range(k) THEN cluster_doc_count
       ELSE [z \in Range(k) |-> 0]
  /\ cluster_word_count' =
       IF DOMAIN cluster_word_count = Range(k) THEN cluster_word_count
       ELSE [z \in Range(k) |-> 0]
  /\ cluster_word_distribution' = [z \in Range(k) |-> <<>>]
  /\ ret' = [op |-> "__init__", arg |-> <<>>, ok |-> TRUE, status |-> "", val |-> <<>>,
             passes |-> 0, prob |-> <<>>]

\* lines 35-45: what __init__ gives a new engine
NewEngine(k, a, b, n) ==
  /\ K' = k /\ alpha' = a /\ beta' = b /\ n_iters' = n
  /\ number_docs' = NoneVal /\ vocab_size' = NoneVal
  /\ cluster_doc_count' = [z \in Range(k) |-> 0]
  /\ cluster_word_count' = [z \in Range(k) |-> 0]
  /\ cluster_word_distribution' = [z \in Range(k) |-> <<>>]
  /\ ret' = [op |-> "__init__", arg |-> <<>>, ok |-> TRUE, status |-> "", val |-> <<>>,
             passes |-> 0, prob |-> <<>>]

\* MovieGroupProcess.__init__: stores whatever it is given, validates nothing
Construct(k, a, b, n) ==
  /\ pc = "new"
  /\ pc' = "idle"
  /\ NewEngine(k, a, b, n)
  /\ UNCHANGED <<dictionary, corpus, locals, nfits, fs, beside>>

\* ------------------------------------------------------------------- score
\* Occurrence count of token id w in a bag-of-words document
CntOf(doc, w) ==
  LET js == {j \in 1..Len(doc) : doc[j][1] = w}
  IN  IF js = {} THEN 0 ELSE doc[CHOOSE j \in js : TRUE][2]

\* The store a score is computed from: self.cluster_doc_count,
\* self.cluster_word_count, self.cluster_word_distribution, self.number_docs
Store(m_z, n_z, n_z_w, docs) == [m_z |-> m_z, n_z |-> n_z, n_z_w |-> n_z_w, D |-> docs]

\* The arguments of the logarithms, cleared of the denominators of alpha and
\* beta (they cancel in the quotient): lN1, then lN2 with one factor per
\* (token_id, count) pair of the document ...
NumFactors(st, z, doc) ==
  <<st.m_z[z] * alpha.den + alpha.num>>
    \o [j \in 1..Len(doc) |-> st.n_z_w[z][doc[j][1]] * beta.den + beta.num]

\* ... and lD2, with doc_size = len(doc) factors; lD1 is D1Factor
DenFactors(st, z, doc) ==
  [j \in 1..Len(doc) |->
     st.n_z[z] * beta.den + vocab_size * beta.num + (j - 1) * beta.den]

D1Factor(st) == (st.D - 1) * alpha.den + K * alpha.num

Has(s, v) == \E j \in 1..Len(s) : s[j] = v
HasNeg(s) == \E j \in 1..Len(s) : s[j] < 0

Nan == [kind |-> "nan", num |-> 0, den |-> 1]
ZeroP == [kind |-> "zero", num |-> 0, den |-> 1]
Inf == [kind |-> "inf", num |-> 1, den |-> 0]

\* p[z] = exp(lN1 - lD1 + lN2 - lD2) before normalisation, as num / den up to
\* the factor 1 / D1Factor that every z shares
RawP(st, z, doc) ==
  IF \/ HasNeg(NumFactors(st, z, doc)) \/ HasNeg(DenFactors(st, z, doc))
     \/ D1Factor(st) < 0
     \/ /\ Has(NumFactors(st, z, doc), 0)
        /\ Has(DenFactors(st, z, doc), 0) \/ D1Factor(st) = 0
  THEN Nan
  ELSE IF Has(NumFactors(st, z, doc), 0) THEN ZeroP
  ELSE IF Has(DenFactors(st, z, doc), 0) \/ D1Factor(st) = 0 THEN Inf
  ELSE [kind |-> "pos", num |-> Prod(NumFactors(st, z, doc)),
        den |-> Prod(DenFactors(st, z, doc))]

Kinds(q) == {q[z].kind : z \in DOMAIN q}

RECURSIVE GCD(_, _)
GCD(a, b) == IF b = 0 THEN a ELSE GCD(b, a % b)

RECURSIVE GCDOf(_)
GCDOf(s) == IF s = <<>> THEN 0 ELSE GCD(Head(s), GCDOf(Tail(s)))

RECURSIVE LCMOf(_)
LCMOf(s) ==
  IF s = <<>> THEN 1
  ELSE (Head(s) \div GCD(Head(s), LCMOf(Tail(s)))) * LCMOf(Tail(s))

Dens(q) == [j \in 1..Cardinality(DOMAIN q) |-> q[SortedSeq(DOMAIN q)[j]].den]

\* the entries of q over their common denominator: the numerators
OverCommon(q) == [z \in DOMAIN q |-> q[z].num * (LCMOf(Dens(q)) \div q[z].den)]

\* w[z] / sum(w) in lowest terms
Share(w, z) ==
  [kind |-> "pos",
   num |-> w[z] \div GCD(w[z], Sum(w)),
   den |-> Sum(w) \div GCD(w[z], Sum(w))]

\* pnorm = sum(p); pnorm = pnorm if pnorm > 0 else 1; [pp / pnorm for pp in p]
\*   a nan in p: the sum is nan, nan > 0 is false, p is returned as it is;
\*   an inf and no nan: every entry is divided by inf;
\*   otherwise the entries are divided by their sum, or by 1 if that is 0.
Normalize(q) ==
  IF "nan" \in Kinds(q) THEN q
  ELSE IF "inf" \in Kinds(q)
  THEN [z \in DOMAIN q |-> IF q[z].kind = "inf" THEN Nan ELSE ZeroP]
  ELSE LET shares == {[z \in DOMAIN q |->
                         IF q[z].kind = "pos" THEN Share(w, z) ELSE ZeroP] :
                       w \in {OverCommon(q)}}
       IN  CHOOSE r \in shares : TRUE

\* score(doc) raises on number_docs = None (D - 1) and on an empty document
\* (idx, cnt = zip(*doc))
ScoreRaises(st, doc) == st.D = NoneVal \/ doc = <<>>

\* score(doc) on the store st (lines 213-237)
ScoreOn(st, doc) ==
  CHOOSE r \in {Normalize(q) : q \in {[z \in Range(K) |-> RawP(st, z, doc)]}} : TRUE

score(doc) ==
  ScoreOn(Store(cluster_doc_count, cluster_word_count, cluster_word_distribution,
                number_docs), doc)

AllZero(q) == \A z \in DOMAIN q : q[z].kind = "zero"
Undefined(q) == \E z \in DOMAIN q : q[z].kind \in {"nan", "inf"}

\* _sample(p): the labels np.random.multinomial(1, p) can return, Raised when
\* it (or the [0] on an empty result) raises.  With an all-zero p numpy gives
\* the whole mass to the last entry; with nan or inf in p the outcome depends
\* on the numpy build (ValueError, or an arbitrary label).
_sample(q) ==
  IF DOMAIN q = {} THEN {Raised}
  ELSE IF Undefined(q) THEN DOMAIN q \cup {Raised}
  ELSE IF AllZero(q) THEN {Cardinality(DOMAIN q) - 1}
  ELSE {z \in DOMAIN q : q[z].kind = "pos"}

Uniform(k) == [z \in Range(k) |-> [kind |-> "pos", num |-> 1, den |-> k]]

\* ------------------------------ the sparse engine, example_under_the_hood.py
\* Its documents are token lists: the tokens of a bag-of-words document, each
\* as often as it occurs
RECURSIVE Words(_)
Words(doc) ==
  IF doc = <<>> THEN <<>>
  ELSE [j \in 1..doc[1][2] |-> doc[1][1]] \o Words(Tail(doc))

\* n_z_w[label].get(word, 0)
Get(row, word) == IF word \in DOMAIN row THEN row[word] ELSE 0

\* lines 195-199: lN1, and lN2 with one term per word of the token list
SparseNumFactors(st, z, words) ==
  <<st.m_z[z] * alpha.den + alpha.num>>
    \o [j \in 1..Len(words) |-> Get(st.n_z_w[z], words[j]) * beta.den + beta.num]

\* lines 200-201: lD2 with doc_size = len(doc) terms, doc the token list
SparseDenFactors(st, z, words) ==
  [j \in 1..Len(words) |->
     st.n_z[z] * beta.den + vocab_size * beta.num + (j - 1) * beta.den]

\* line 202: p[label] before normalisation
SparseRawP(st, z, words) ==
  IF \/ HasNeg(SparseNumFactors(st, z, words)) \/ HasNeg(SparseDenFactors(st, z, words))
     \/ D1Factor(st) < 0
     \/ /\ Has(SparseNumFactors(st, z, words), 0)
        /\ Has(SparseDenFactors(st, z, words), 0) \/ D1Factor(st) = 0
  THEN Nan
  ELSE IF Has(SparseNumFactors(st, z, words), 0) THEN ZeroP
  ELSE IF Has(SparseDenFactors(st, z, words), 0) \/ D1Factor(st) = 0 THEN Inf
  ELSE [kind |-> "pos", num |-> Prod(SparseNumFactors(st, z, words)),
        den |-> Prod(SparseDenFactors(st, z, words))]

\* score(doc) of the sparse engine on the store st (lines 180-207)
SparseScoreOn(st, words) ==
  CHOOSE r \in {Normalize(q) : q \in {[z \in Range(K) |-> SparseRawP(st, z, words)]}} : TRUE

\* lines 53-55: the store of a new sparse engine
SparseEngine(k) ==
  [on |-> TRUE, m_z |-> [z \in Range(k) |-> 0], n_z |-> [z \in Range(k) |-> 0],
   n_z_w |-> [z \in Range(k) |-> <<>>]]

\* the token list the sparse engine is given for a bag-of-words document
TokenList(id2token, doc) == [j \in 1..Len(Words(doc)) |-> id2token[Words(doc)[j] + 1]]

\* lines 119-122, 154-157: for word in doc: n_z_w[z][word] += 1, from 0 if absent
RECURSIVE SparseAddWords(_, _)
SparseAddWords(row, words) ==
  IF words = <<>> THEN row
  ELSE SparseAddWords((Head(words) :> (Get(row, Head(words)) + 1)) @@ row, Tail(words))

\* lines 135-140: for word in doc: n_z_w[z_old][word] -= 1, deleted at 0
RECURSIVE SparseRemoveWords(_, _)
SparseRemoveWords(row, words) ==
  IF words = <<>> THEN row
  ELSE SparseRemoveWords(
         IF row[Head(words)] = 1
         THEN [w \in DOMAIN row \ {Head(words)} |-> row[w]]
         ELSE [row EXCEPT ![Head(words)] = @ - 1],
         Tail(words))

\* lines 116-122, 151-157
SparseAdd(sp, z, words) ==
  [sp EXCEPT !.m_z[z] = @ + 1, !.n_z[z] = @ + Len(words),
             !.n_z_w[z] = SparseAddWords(@, words)]

\* lines 132-140
SparseRemove(sp, z, words) ==
  [sp EXCEPT !.m_z[z] = @ - 1, !.n_z[z] = @ - Len(words),
             !.n_z_w[z] = SparseRemoveWords(@, words)]

\* ------------------------------------------------- a run and its repetition
\* what a fit run shows at a step: the store, the labels, the score vector,
\* the outcome
Here ==
  [pc |-> pc, m_z |-> cluster_doc_count, n_z |-> cluster_word_count,
   n_z_w |-> cluster_word_distribution, d_z |-> d_z, p |-> p, ret |-> ret]

\* the random source gives the second run the draws it gave the first
Fed(z) ==
  first.phase = "replay" /\ first.pos < Len(first.trace) =>
    z = first.trace[first.pos + 1].draw

\* a step of the first run is written down with its draw (NoneVal for a step
\* without one); a step of the second run moves on along the record
Logged(z) ==
  IF first.phase = "rec"
  THEN [first EXCEPT !.trace = Append(@, [draw |-> z, at |-> Here'])]
  ELSE IF first.phase = "replay" THEN [first EXCEPT !.pos = @ + 1]
  ELSE first

\* a dense and a sparse engine of the same configuration, to be run on the
\* same corpus and the same draws
ConstructBoth(k, a, b, n) ==
  /\ pc = "new"
  /\ pc' = "idle"
  /\ NewEngine(k, a, b, n)
  /\ sparse' = SparseEngine(k)
  /\ UNCHANGED <<dictionary, corpus, locals, nfits, fs, first>>

\* an engine whose fit run is written down
ConstructFirst(k, a, b, n) ==
  /\ pc = "new"
  /\ pc' = "idle"
  /\ NewEngine(k, a, b, n)
  /\ first' = [NoFirst EXCEPT !.phase = "rec", !.cfg = <<k, a, b, n>>]
  /\ UNCHANGED <<dictionary, corpus, locals, nfits, fs, sparse>>

\* once the first run is over: a second, new engine of the same configuration
\* takes the place of the first
ConstructSecond ==
  /\ pc = "idle" /\ first.phase = "rec" /\ ret.op = "fit"
  /\ NewEngine(first.cfg[1], first.cfg[2], first.cfg[3], first.cfg[4])
  /\ dictionary' = NoDictionary /\ corpus' = <<>>
  /\ nfits' = 0
  /\ first' = [first EXCEPT !.phase = "replay"]
  /\ UNCHANGED <<pc, locals, fs, sparse>>

\* --------------------------------------------------------------------- fit
ConvergenceFloor == 25

Zeros(k, v) == [z \in Range(k) |-> [w \in Range(v) |-> 0]]

\* m_z[z] += 1 / -= 1
BumpCount(m, z, by) == [m EXCEPT ![z] = @ + by]

\* n_z[z] += len(doc) / -= len(doc): doc is the bag-of-words list, so len(doc)
\* is its number of (token_id, count) pairs
BumpWords(n, z, doc, sign) == [n EXCEPT ![z] = @ + sign * Len(doc)]

\* n_z_w[z, idx] += cnt / -= cnt
BumpDistribution(nw, z, doc, sign) ==
  [nw EXCEPT ![z] = [w \in DOMAIN nw[z] |-> nw[z][w] + sign * CntOf(doc, w)]]

Populated(m) == Cardinality({z \in DOMAIN m : m[z] > 0})

\* the floor compared with the number of completed passes instead of the index
ConvergedAtFloor(transfers, count_new, count, it) ==
  transfers = 0 /\ count_new = count /\ it + 1 > ConvergenceFloor

\* the floor one pass late
ConvergedLate(transfers, count_new, count, it) ==
  transfers = 0 /\ count_new = count /\ it > ConvergenceFloor + 1

\* total_transfers == 0 and cluster_count_new == cluster_count and _iter > 25
Converged(transfers, count_new, count, it) ==
  transfers = 0 /\ count_new = count /\ it > ConvergenceFloor

D == Len(corpus)

LocalsDropped ==
  /\ d_z' = <<>> /\ i' = 0 /\ iter' = 0 /\ total_transfers' = 0
  /\ cluster_count' = 0 /\ p' = <<>> /\ UNCHANGED moved

\* fit raises: the exception reaches the caller, the engine keeps what the
\* statements before the raise did
FitRaise(labels) ==
  /\ pc' = "idle"
  /\ ret' = [op |-> "fit", arg |-> <<>>, ok |-> FALSE, status |-> "raised",
             val |-> labels, passes |-> iter, prob |-> <<>>]
  /\ LocalsDropped

\* self.cluster_word_distribution = n_z_w; return d_z
FitReturn(status, labels, passes) ==
  /\ pc' = "idle"
  /\ ret' = [op |-> "fit", arg |-> <<>>, ok |-> TRUE, status |-> status,
             val |-> labels, passes |-> passes, prob |-> <<>>]
  /\ LocalsDropped

\* lines 139-151: create_dictionary, number_docs, a fresh n_z_w; m_z and n_z
\* are the arrays the engine already holds
FitBegin(docs, limit) ==
  /\ pc = "idle" /\ nfits < limit
  /\ LET id2token == Dictionary(docs)
     IN  /\ dictionary' = [set |-> TRUE, id2token |-> id2token]
         /\ corpus' = [j \in 1..Len(docs) |-> doc2bow(id2token, docs[j])]
         /\ vocab_size' = Len(id2token)
         /\ cluster_word_distribution' = Zeros(K, Len(id2token))
  /\ number_docs' = Len(docs)
  /\ cluster_count' = K
  /\ d_z' = [j \in 1..Len(docs) |-> NoneVal]
  /\ i' = 0 /\ iter' = 0 /\ total_transfers' = 0 /\ p' = <<>> /\ moved' = FALSE
  /\ pc' = "init"
  /\ nfits' = nfits + 1
  /\ ret' = [op |-> "fit", arg |-> <<>>, ok |-> TRUE, status |-> "running", val |-> <<>>,
             passes |-> 0, prob |-> <<>>]
  /\ UNCHANGED <<K, alpha, beta, n_iters, cluster_doc_count, cluster_word_count, fs>>
  /\ UNCHANGED sparse               \* lines 99-108 of the sparse fit reset nothing
  /\ first' = [Logged(NoneVal) EXCEPT !.docs = IF first.phase = "rec" THEN docs ELSE @]

\* lines 154-162: one round of the initialisation loop
FitInitDoc ==
  /\ pc = "init" /\ i < D
  /\ \E z \in _sample(Uniform(K)) :
       /\ Fed(z)
       /\ IF z = Raised
          THEN /\ FitRaise(d_z)
               /\ UNCHANGED <<cluster_doc_count, cluster_word_count,
                              cluster_word_distribution, sparse>>
          ELSE /\ cluster_doc_count' = BumpCount(cluster_doc_count, z, 1)
               /\ cluster_word_count' = BumpWords(cluster_word_count, z, corpus[i + 1], 1)
               /\ IF corpus[i + 1] = <<>>             \* idx, cnt = zip(*doc) raises
                  THEN /\ FitRaise([d_z EXCEPT ![i + 1] = z])
                       /\ UNCHANGED cluster_word_distribution
                  ELSE /\ cluster_word_distribution' =
                            BumpDistribution(cluster_word_distribution, z, corpus[i + 1], 1)
                       /\ d_z' = [d_z EXCEPT ![i + 1] = z]
                       /\ i' = i + 1
                       /\ UNCHANGED <<pc, ret, iter, total_transfers, cluster_count, p, moved>>
               /\ sparse' = IF sparse.on
                            THEN SparseAdd(sparse, z,
                                           TokenList(dictionary.id2token, corpus[i + 1]))
                            ELSE sparse
       /\ first' = Logged(z)
  /\ UNCHANGED <<K, alpha, beta, n_iters, number_docs, vocab_size, dictionary, corpus,
                 nfits, fs>>

\* line 164: the initialisation loop is over, for _iter in range(n_iters) starts
FitInitDone ==
  /\ pc = "init" /\ i = D
  /\ IF n_iters > 0
     THEN /\ pc' = "doc" /\ iter' = 0 /\ total_transfers' = 0 /\ i' = 0
          /\ UNCHANGED <<d_z, cluster_count, p, moved, ret>>
     ELSE FitReturn("MaxIterReached", d_z, 0)
  /\ UNCHANGED <<engine, nfits, fs, sparse>>
  /\ first' = Logged(NoneVal)

\* lines 170-179: remove the doc from its current cluster and score it against
\* the store it has left
FitRemove ==
  /\ pc = "doc" /\ i < D
  /\ \E st \in {Store(BumpCount(cluster_doc_count, d_z[i + 1], 0 - 1),
                      BumpWords(cluster_word_count, d_z[i + 1], corpus[i + 1], 0 - 1),
                      BumpDistribution(cluster_word_distribution, d_z[i + 1],
                                       corpus[i + 1], 0 - 1),
                      number_docs)} :
       /\ cluster_doc_count' = st.m_z
       /\ cluster_word_count' = st.n_z
       /\ cluster_word_distribution' = st.n_z_w
       /\ IF ScoreRaises(st, corpus[i + 1])
          THEN FitRaise(d_z)
          ELSE /\ p' = ScoreOn(st, corpus[i + 1])
               /\ pc' = "sample"
               /\ UNCHANGED <<d_z, i, iter, total_transfers, cluster_count, moved, ret>>
       /\ sparse' = IF sparse.on
                    THEN SparseRemove(sparse, d_z[i + 1],
                                      TokenList(dictionary.id2token, corpus[i + 1]))
                    ELSE sparse
       /\ first' = Logged(NoneVal)
  /\ UNCHANGED <<K, alpha, beta, n_iters, number_docs, vocab_size, dictionary, corpus,
                 nfits, fs>>

\* lines 180-190: draw the new cluster from p and move the doc to it
FitAssign ==
  /\ pc = "sample"
  /\ \E z_new \in _sample(p) :
       /\ Fed(z_new)
       /\ IF z_new = Raised
          THEN /\ FitRaise(d_z)
               /\ UNCHANGED <<cluster_doc_count, cluster_word_count,
                              cluster_word_distribution, sparse>>
          ELSE /\ total_transfers' = total_transfers + (IF z_new /= d_z[i + 1] THEN 1 ELSE 0)
               /\ moved' = (moved \/ z_new /= d_z[i + 1])
               /\ d_z' = [d_z EXCEPT ![i + 1] = z_new]
               /\ cluster_doc_count' = BumpCount(cluster_doc_count, z_new, 1)
               /\ cluster_word_count' = BumpWords(cluster_word_count, z_new, corpus[i + 1], 1)
               /\ cluster_word_distribution' =
                    BumpDistribution(cluster_word_distribution, z_new, corpus[i + 1], 1)
               /\ i' = i + 1
               /\ p' = <<>>
               /\ pc' = "doc"
               /\ UNCHANGED <<iter, cluster_count, ret>>
               /\ sparse' = IF sparse.on
                            THEN SparseAdd(sparse, z_new,
                                           TokenList(dictionary.id2token, corpus[i + 1]))
                            ELSE sparse
       /\ first' = Logged(z_new)
  /\ UNCHANGED <<K, alpha, beta, n_iters, number_docs, vocab_size, dictionary, corpus,
                 nfits, fs>>

\* lines 192-200: the end of a pass, the convergence test, the return
FitPassEnd ==
  /\ pc = "doc" /\ i = D
  /\ IF Converged(total_transfers, Populated(cluster_doc_count), cluster_count, iter)
     THEN FitReturn("Converged", d_z, iter + 1)
     ELSE IF iter + 1 < n_iters
     THEN /\ cluster_count' = Populated(cluster_doc_count)
          /\ iter' = iter + 1 /\ total_transfers' = 0 /\ i' = 0
          /\ UNCHANGED <<pc, d_z, p, moved, ret>>
     ELSE FitReturn("MaxIterReached", d_z, iter + 1)
  /\ UNCHANGED <<engine, nfits, fs, sparse>>
  /\ first' = Logged(NoneVal)

Fit == FitInitDoc \/ FitInitDone \/ FitRemove \/ FitAssign \/ FitPassEnd

\* ------------------------------------------------------- choose_best_label
\* pp > qq on floats: every comparison with a nan is false
Greater(pp, qq) ==
  IF pp.kind = "nan" \/ qq.kind = "nan" THEN FALSE
  ELSE IF pp.kind = "inf" THEN qq.kind /= "inf"
  ELSE IF pp.kind = "zero" \/ qq.kind = "inf" THEN FALSE
  ELSE IF qq.kind = "zero" THEN TRUE
  ELSE IF pp.den = qq.den THEN pp.num > qq.num
  ELSE pp.num * qq.den > qq.num * pp.den

\* np.argmax(p): the first nan if there is one, else the first maximum
argmax(q) ==
  IF \E z \in DOMAIN q : q[z].kind = "nan"
  THEN CHOOSE z \in DOMAIN q :
         q[z].kind = "nan" /\ \A y \in DOMAIN q : y < z => q[y].kind /= "nan"
  ELSE CHOOSE z \in DOMAIN q :
         /\ \A y \in DOMAIN q : ~Greater(q[y], q[z])
         /\ \A y \in DOMAIN q : y < z => Greater(q[z], q[y])

\* max(p), Python's builtin: keeps the first item unless a later one is greater
RECURSIVE max(_, _)
max(q, z) ==
  IF z = 0 THEN q[0]
  ELSE IF Greater(q[z], max(q, z - 1)) THEN q[z] ELSE max(q, z - 1)

\* the document is also counted into the cluster it is given
ChooseBestLabelCountsDoc(doc) ==
  /\ pc = "idle"
  /\ \E bow \in {doc2bow(dictionary.id2token, doc)} :
       IF \/ ~dictionary.set
          \/ ScoreRaises(Store(cluster_doc_count, cluster_word_count,
                               cluster_word_distribution, number_docs), bow)
          \/ K = 0
       THEN /\ ret' = [op |-> "choose_best_label", arg |-> doc, ok |-> FALSE,
                       status |-> "raised", val |-> <<>>, passes |-> 0, prob |-> <<>>]
            /\ UNCHANGED cluster_doc_count
       ELSE \E q \in {score(bow)} :
              /\ ret' = [op |-> "choose_best_label", arg |-> doc, ok |-> TRUE,
                         status |-> "", val |-> <<argmax(q)>>, passes |-> 0,
                         prob |-> <<max(q, K - 1)>>]
              /\ cluster_doc_count' = BumpCount(cluster_doc_count, argmax(q), 1)
  /\ UNCHANGED <<pc, K, alpha, beta, n_iters, number_docs, vocab_size,
                 cluster_word_count, cluster_word_distribution, dictionary, corpus,
                 locals, nfits, fs, beside>>

\* lines 246-248.  Raises: no self.dictionary before the first fit; score on
\* number_docs = None or on an empty bag-of-words; argmax of an empty p (K = 0)
ChooseBestLabel(doc) ==
  /\ pc = "idle"
  /\ \E bow \in {doc2bow(dictionary.id2token, doc)} :
       IF \/ ~dictionary.set
          \/ ScoreRaises(Store(cluster_doc_count, cluster_word_count,
                               cluster_word_distribution, number_docs), bow)
          \/ K = 0
       THEN ret' = [op |-> "choose_best_label", arg |-> doc, ok |-> FALSE,
                    status |-> "raised", val |-> <<>>, passes |-> 0, prob |-> <<>>]
       ELSE \E q \in {score(bow)} :
              ret' = [op |-> "choose_best_label", arg |-> doc, ok |-> TRUE,
                      status |-> "", val |-> <<argmax(q)>>, passes |-> 0,
                      prob |-> <<max(q, K - 1)>>]
  /\ UNCHANGED <<pc, engine, locals, nfits, fs, beside>>

\* --------------------------------------------------------------- top_words
\* np.argsort of f over the indices S, ascending; equal values keep their
\* index order (numpy sorts arrays this short by insertion)
RECURSIVE argsort(_, _)
argsort(f, S) ==
  IF S = {} THEN <<>>
  ELSE LET x == CHOOSE y \in S : \A w \in S : f[y] < f[w] \/ (f[y] = f[w] /\ y <= w)
       IN  <<x>> \o argsort(f, S \ {x})

\* s[-n:], which for n = 0 is s[0:], the whole of s
LastN(s, n) == IF n = 0 THEN s ELSE SubSeq(s, Len(s) - n + 1, Len(s))

\* s[:n]
FirstN(s, n) == SubSeq(s, 1, IF n < Len(s) THEN n ELSE Len(s))

\* s[::-1]
Reversed(s) == [j \in 1..Len(s) |-> s[Len(s) + 1 - j]]

\* lines 251-253: doc_count.argsort()[-n_topics_with_docs:][::-1]
top_index(doc_count) ==
  Reversed(LastN(argsort(doc_count, DOMAIN doc_count), Populated(doc_count)))

\* line 255, one row: np.argsort(-row)[:n_toks]
top_cluster_tok_idx(row, n_toks) ==
  FirstN(argsort([w \in DOMAIN row |-> 0 - row[w]], DOMAIN row), n_toks)

NToks == {1, 2}

\* lines 251-262.  Before the first fit cluster_word_distribution is a list
\* of dicts and the unary minus of line 255 raises.  ret.val is the clusters in
\* the order the loop of line 257 visits them, ret.words their tokens.
TopWords(n_toks) ==
  /\ pc = "idle"
  /\ IF ~dictionary.set
     THEN ret' = [op |-> "top_words", arg |-> <<n_toks>>, ok |-> FALSE,
                  status |-> "raised", val |-> <<>>, passes |-> 0, prob |-> <<>>,
                  words |-> <<>>]
     ELSE \E visited \in {top_index(cluster_doc_count)} :
            ret' = [op |-> "top_words", arg |-> <<n_toks>>, ok |-> TRUE,
                    status |-> "", val |-> visited, passes |-> 0, prob |-> <<>>,
                    words |-> [j \in 1..Len(visited) |->
                                 [l \in 1..Len(top_cluster_tok_idx(
                                                 cluster_word_distribution[visited[j]], n_toks)) |->
                                    dictionary.id2token[
                                      top_cluster_tok_idx(
                                        cluster_word_distribution[visited[j]], n_toks)[l] + 1]]]]
  /\ UNCHANGED <<pc, engine, locals, nfits, fs, beside>>

\* ------------------------------------------------------------ save and load
DefaultNIters == 30

\* Dictionary.save_as_text: one (id, token) line per token, by token
save_as_text(id2token) ==
  [j \in 1..Len(id2token) |->
     <<token2id(id2token, SortedSeq(Known(id2token))[j]),
       SortedSeq(Known(id2token))[j]>>]

\* Dictionary.load_from_text: the token of each id
load_from_text(lines) ==
  [j \in 1..Len(lines) |-> lines[CHOOSE l \in 1..Len(lines) : lines[l][1] = j - 1][2]]

\* the two count arrays written in the other order
ModelFileCountsSwapped ==
  <<K, alpha, beta, cluster_word_count, cluster_doc_count, cluster_word_distribution>>

\* gsdmm.npy: the six np.save calls of lines 82-87, in this order
ModelFile ==
  <<K, alpha, beta, cluster_doc_count, cluster_word_count, cluster_word_distribution>>

\* what the engine held when it was saved (history, not read by load)
Snapshot ==
  [K |-> K, alpha |-> alpha, beta |-> beta, doc_count |-> cluster_doc_count,
   word_count |-> cluster_word_count, word_distribution |-> cluster_word_distribution,
   id2token |-> dictionary.id2token]

\* an existing folder is reported and the save returns without writing
SaveSkipsExisting(folder_path) ==
  /\ pc = "idle"
  /\ IF folder_path \in DOMAIN fs
     THEN /\ ret' = [op |-> "save", arg |-> <<folder_path>>, ok |-> TRUE,
                     status |-> "", val |-> <<>>, passes |-> 0, prob |-> <<>>]
          /\ UNCHANGED fs
     ELSE IF ~dictionary.set
     THEN /\ fs' = (folder_path :> [npy |-> ModelFile, has_txt |-> FALSE, txt |-> <<>>,
                                   saved |-> Snapshot]) @@ fs
          /\ ret' = [op |-> "save", arg |-> <<folder_path>>, ok |-> FALSE,
                     status |-> "AttributeError", val |-> <<>>, passes |-> 0,
                     prob |-> <<>>]
     ELSE /\ fs' = (folder_path :> [npy |-> ModelFile, has_txt |-> TRUE,
                                   txt |-> save_as_text(dictionary.id2token),
                                   saved |-> Snapshot]) @@ fs
          /\ ret' = [op |-> "save", arg |-> <<folder_path>>, ok |-> TRUE,
                     status |-> "", val |-> <<>>, passes |-> 0, prob |-> <<>>]
  /\ UNCHANGED <<pc, engine, locals, nfits, beside>>

\* lines 76-89.  An existing folder is reported and os.mkdir then raises
\* FileExistsError; without self.dictionary (no fit yet) save_as_text raises
\* after gsdmm.npy is written.
Save(folder_path) ==
  /\ pc = "idle"
  /\ IF folder_path \in DOMAIN fs
     THEN /\ ret' = [op |-> "save", arg |-> <<folder_path>>, ok |-> FALSE,
                     status |-> "FileExistsError", val |-> <<>>, passes |-> 0,
                     prob |-> <<>>]
          /\ UNCHANGED fs
     ELSE IF ~dictionary.set
     THEN /\ fs' = (folder_path :> [npy |-> ModelFile, has_txt |-> FALSE, txt |-> <<>>,
                                   saved |-> Snapshot]) @@ fs
          /\ ret' = [op |-> "save", arg |-> <<folder_path>>, ok |-> FALSE,
                     status |-> "AttributeError", val |-> <<>>, passes |-> 0,
                     prob |-> <<>>]
     ELSE /\ fs' = (folder_path :> [npy |-> ModelFile, has_txt |-> TRUE,
                                   txt |-> save_as_text(dictionary.id2token),
                                   saved |-> Snapshot]) @@ fs
          /\ ret' = [op |-> "save", arg |-> <<folder_path>>, ok |-> TRUE,
                     status |-> "", val |-> <<>>, passes |-> 0, prob |-> <<>>]
  /\ UNCHANGED <<pc, engine, locals, nfits, beside>>

\* lines 61-68: a new engine around the given arrays
from_data(k, a, b, id2token, doc_count, word_count, word_distribution) ==
  /\ K' = k /\ alpha' = a /\ beta' = b /\ n_iters' = DefaultNIters
  /\ number_docs' = Sum(doc_count)
  /\ dictionary' = [set |-> TRUE, id2token |-> id2token]
  /\ vocab_size' = Len(id2token)
  /\ cluster_doc_count' = doc_count
  /\ cluster_word_count' = word_count
  /\ cluster_word_distribution' = word_distribution
  /\ corpus' = <<>>

\* lines 100-111: the six np.load calls read the file in order; the caller
\* goes on with the engine load returns
Load(folder_path) ==
  /\ pc = "idle"
  /\ IF folder_path \notin DOMAIN fs
     THEN /\ ret' = [op |-> "load", arg |-> <<folder_path>>, ok |-> FALSE,
                     status |-> "raised", val |-> <<>>, passes |-> 0, prob |-> <<>>]
          /\ UNCHANGED engine
     ELSE IF ~fs[folder_path].has_txt
     THEN /\ ret' = [op |-> "load", arg |-> <<folder_path>>, ok |-> FALSE,
                     status |-> "raised", val |-> <<>>, passes |-> 0, prob |-> <<>>]
          /\ UNCHANGED engine
     ELSE /\ from_data(fs[folder_path].npy[1], fs[folder_path].npy[2],
                       fs[folder_path].npy[3], load_from_text(fs[folder_path].txt),
                       fs[folder_path].npy[4], fs[folder_path].npy[5],
                       fs[folder_path].npy[6])
          /\ ret' = [op |-> "load", arg |-> <<folder_path>>, ok |-> TRUE,
                     status |-> "", val |-> <<>>, passes |-> 0, prob |-> <<>>]
  /\ UNCHANGED <<pc, locals, nfits, fs, beside>>

\* ----------------------------------------------------------- specifications
\* Spec: construction with any hyperparameters, then fit calls on one engine
Next ==
  \/ \E k \in KSet, a \in AlphaSet, b \in BetaSet, n \in NItersSet : Construct(k, a, b, n)
  \/ \E docs \in Corpora : FitBegin(docs, MaxFits)
  \/ FitInitDoc
  \/ FitInitDone
  \/ FitRemove
  \/ FitAssign
  \/ FitPassEnd

Spec == Init /\ [][Next]_vars

\* SpecConv: one fit of a long run, n_iters around the floor of the convergence
\* test.  fit is one synchronous call, so once begun its loop keeps running:
\* WF(Fit).
ConvIters == (ConvergenceFloor + 1)..(ConvergenceFloor + ConvExtra)

NextConv ==
  \/ \E k \in KSet, n \in ConvIters : Construct(k, Tenth, Tenth, n)
  \/ \E docs \in ShortCorpora : FitBegin(docs, 1)
  \/ FitInitDoc
  \/ FitInitDone
  \/ FitRemove
  \/ FitAssign
  \/ FitPassEnd

SpecConv == Init /\ [][NextConv]_vars /\ WF_vars(Fit)

\* SpecIO: one fit, and save and load in any order
NextIO ==
  \/ \E k \in KSet, a \in AlphaSet, b \in BetaSet : Construct(k, a, b, 1)
  \/ \E docs \in FewCorpora : FitBegin(docs, 1)
  \/ FitInitDoc
  \/ FitInitDone
  \/ FitRemove
  \/ FitAssign
  \/ FitPassEnd
  \/ \E path \in Paths : Save(path)
  \/ \E path \in Paths : Load(path)

SpecIO == Init /\ [][NextIO]_vars

\* SpecInfer: one fit, and inference and summaries in any order
NextInfer ==
  \/ \E k \in KSet, a \in AlphaSet, b \in BetaSet : Construct(k, a, b, 1)
  \/ \E docs \in FewCorpora : FitBegin(docs, 1)
  \/ FitInitDoc
  \/ FitInitDone
  \/ FitRemove
  \/ FitAssign
  \/ FitPassEnd
  \/ \E doc \in Docs : ChooseBestLabel(doc)
  \/ \E n_toks \in NToks : TopWords(n_toks)

SpecInfer == Init /\ [][NextInfer]_vars

\* SpecPair: the dense engine and the sparse engine side by side, fit after fit
NextPair ==
  \/ \E k \in KSet, a \in AlphaSet, b \in BetaSet, n \in NItersSet : ConstructBoth(k, a, b, n)
  \/ \E docs \in FewCorpora : FitBegin(docs, MaxFits)
  \/ FitInitDoc
  \/ FitInitDone
  \/ FitRemove
  \/ FitAssign
  \/ FitPassEnd

SpecPair == Init /\ [][NextPair]_vars

\* the second run is given the corpus of the first
FitBeginFed(docs) ==
  /\ first.phase = "replay" => docs = first.docs
  /\ FitBegin(docs, 1)

\* SpecTwin: a fit run on a new engine, then the same corpus on a second new
\* engine of the same configuration, fed the same draws
NextTwin ==
  \/ \E k \in KSet, a \in AlphaSet, b \in BetaSet, n \in TwinIters : ConstructFirst(k, a, b, n)
  \/ \E docs \in FewCorpora : FitBeginFed(docs)
  \/ FitInitDoc
  \/ FitInitDone
  \/ FitRemove
  \/ FitAssign
  \/ FitPassEnd
  \/ ConstructSecond

SpecTwin == Init /\ [][NextTwin]_vars

\* ------------------------------------------------------------------- claims
Fitting == pc \in {"init", "doc", "sample"}
FitReturned == pc = "idle" /\ ret.op = "fit" /\ ret.ok
\* every document sits in a cluster: initialisation is over and no document is
\* removed (between two visits, at the end of a pass, after the return)
AllPlaced == pc = "doc" \/ FitReturned

\* doc_size of the specification: the sum of the occurrence counts
doc_size(doc) == Sum([j \in 1..Len(doc) |-> doc[j][2]])
TotalOccurrences == Sum([j \in 1..Len(corpus) |-> doc_size(corpus[j])])

\* C1: whenever every document is placed (after the initialisation, after each
\* reassignment, after each pass), word_count[z] is the sum of
\* word_distribution[z] for every cluster z, and the word_count sum to the
\* number of token occurrences of the corpus.
C1_WordCountsAreOccurrences ==
  AllPlaced =>
    /\ \A z \in Range(K) : cluster_word_count[z] = Sum(cluster_word_distribution[z])
    /\ Sum(cluster_word_count) = TotalOccurrences

\* C2: after the initialisation, at the end of every pass and when fit returns,
\* the doc_count sum to D, the number of documents of this fit call; fit
\* returns D labels, each in [0, K).
C2_DocCountsSumToD ==
  /\ (pc = "doc" /\ i \in {0, D}) \/ FitReturned => Sum(cluster_doc_count) = D
  /\ pc = "doc" => \A j \in 1..D : d_z[j] \in Range(K)
  /\ FitReturned => Len(ret.val) = D /\ \A j \in 1..D : ret.val[j] \in Range(K)

\* What a fresh engine holds once documents 1..n of the corpus sit under labels
Placed(st, z, doc) ==
  Store(BumpCount(st.m_z, z, 1), BumpWords(st.n_z, z, doc, 1),
        BumpDistribution(st.n_z_w, z, doc, 1), st.D)

RECURSIVE Fresh(_, _)
Fresh(labels, n) ==
  IF n = 0
  THEN Store([z \in Range(K) |-> 0], [z \in Range(K) |-> 0], Zeros(K, vocab_size), D)
  ELSE Placed(Fresh(labels, n - 1), labels[n], corpus[n])

\* C3: when fit returns, doc_count, word_count and word_distribution are what
\* a fresh engine holds for this corpus and these labels, whatever the engine
\* held before the call.
C3_FitStartsFromEmptyStore ==
  FitReturned =>
    /\ cluster_doc_count = Fresh(ret.val, D).m_z
    /\ cluster_word_count = Fresh(ret.val, D).n_z
    /\ cluster_word_distribution = Fresh(ret.val, D).n_z_w

PassEnds == pc = "doc" /\ i = D

\* The step that ends a pass stops early exactly when the pass made no
\* transfer, the populated-cluster count is the one recorded after the pass
\* before and at least `floor` passes are over; else it starts the next pass,
\* or returns MaxIterReached after n_iters passes.
PassEndRule(floor) ==
  PassEnds =>
    IF /\ total_transfers = 0
       /\ Populated(cluster_doc_count) = cluster_count
       /\ iter + 1 >= floor
    THEN pc' = "idle" /\ ret'.ok /\ ret'.status = "Converged" /\ ret'.passes = iter + 1
    ELSE IF iter + 1 < n_iters
    THEN /\ pc' = "doc" /\ iter' = iter + 1 /\ i' = 0 /\ total_transfers' = 0
         /\ cluster_count' = Populated(cluster_doc_count)
    ELSE pc' = "idle" /\ ret'.ok /\ ret'.status = "MaxIterReached"
         /\ ret'.passes = n_iters

\* C4 as amended: the early stop needs at least 27 completed passes (the loop
\* index _iter of the pass just finished is at least 26).
C4_ConvergesFromPass27 == [][PassEndRule(ConvergenceFloor + 2)]_vars

\* C4 as claimed: the early stop needs at least 26 completed passes.
C4_ConvergesFromPass26 == [][PassEndRule(ConvergenceFloor + 1)]_vars

\* fit stopped early after a pass with transfers before it, passes to spare
C4_Witness ==
  /\ FitReturned /\ ret.status = "Converged" /\ moved
  /\ ret.passes = ConvergenceFloor + 2 /\ ret.passes < n_iters

\* C5: fit terminates and never runs more than n_iters passes; a run in which
\* no document changes cluster after the initialisation converges in the pass
\* with loop index 26 whenever n_iters reaches that pass.
C5_FitTerminates ==
  /\ [](pc \in {"doc", "sample"} => iter < n_iters)
  /\ [](FitReturned => ret.passes <= n_iters)
  /\ [](FitReturned /\ ~moved /\ n_iters > ConvergenceFloor + 1 =>
          ret.status = "Converged" /\ ret.passes = ConvergenceFloor + 2)
  /\ (Fitting ~> (pc = "idle"))

\* a run without any transfer stopped in the pass with loop index 26
C5_Witness ==
  /\ FitReturned /\ ~moved /\ D > 0 /\ K > 0
  /\ ret.status = "Converged" /\ ret.passes = ConvergenceFloor + 2
  /\ n_iters > ConvergenceFloor + 2

\* C6: a save into an existing location fails and leaves the location as it
\* is; a save that returns normally has written the model file and the
\* vocabulary file of the engine.
C6_SaveFailsOnExistingPath ==
  [][ret'.op = "save" =>
       /\ ret'.arg[1] \in DOMAIN fs => ~ret'.ok /\ fs' = fs
       /\ ret'.ok =>
            /\ ret'.arg[1] \in DOMAIN fs'
            /\ fs'[ret'.arg[1]].npy[4] = cluster_doc_count
            /\ fs'[ret'.arg[1]].npy[6] = cluster_word_distribution
            /\ fs'[ret'.arg[1]].has_txt
            /\ Len(fs'[ret'.arg[1]].txt) = vocab_size]_vars

\* a save was refused because the folder exists, and the folder holds what an
\* earlier save of another engine state left there
C6_Witness ==
  /\ ret.op = "save" /\ ~ret.ok /\ ret.status = "FileExistsError"
  /\ ret.arg[1] \in DOMAIN fs
  /\ fs[ret.arg[1]].npy[6] /= cluster_word_distribution

\* C7: after save to a fresh location and load from it, the engine holds the
\* K, alpha, beta, doc_count, word_count and word_distribution the saved engine
\* held, its Vocabulary gives every token the id it had, number_docs is the sum
\* of doc_count and vocab_size the size of the Vocabulary.
C7_SaveLoadRoundTrip ==
  ret.op = "load" /\ ret.ok =>
    /\ K = fs[ret.arg[1]].saved.K
    /\ alpha = fs[ret.arg[1]].saved.alpha
    /\ beta = fs[ret.arg[1]].saved.beta
    /\ cluster_doc_count = fs[ret.arg[1]].saved.doc_count
    /\ cluster_word_count = fs[ret.arg[1]].saved.word_count
    /\ cluster_word_distribution = fs[ret.arg[1]].saved.word_distribution
    /\ dictionary.set /\ dictionary.id2token = fs[ret.arg[1]].saved.id2token
    /\ number_docs = Sum(cluster_doc_count)
    /\ vocab_size = Len(dictionary.id2token)

\* an engine with two clusters and a two-token document came back from disk
C7_Witness ==
  /\ ret.op = "load" /\ ret.ok /\ K = 2 /\ vocab_size = 2
  /\ cluster_doc_count /= cluster_word_count
  /\ Sum(cluster_doc_count) > 0

\* C8: fit never draws a label from an all-zero score vector: the step that
\* finds one raises.
C8_NoDrawFromAllZero ==
  [][pc = "sample" /\ AllZero(p) => pc' = "idle" /\ ~ret'.ok]_vars

ValidConfiguration == K >= 1 /\ alpha.num > 0 /\ beta.num > 0 /\ n_iters >= 1

\* C9: every engine that exists has a valid configuration (K >= 1, alpha > 0,
\* beta > 0, n_iters >= 1): the constructor refuses any other.
C9_OnlyValidEngines == pc /= "new" => ValidConfiguration

\* an engine of a valid configuration whose fit of a corpus of non-empty
\* documents has returned
Fitted ==
  /\ dictionary.set /\ ValidConfiguration
  /\ D > 0 /\ \A j \in 1..D : corpus[j] /= <<>>
  /\ number_docs = D /\ Sum(cluster_doc_count) = D

\* C10: on a fitted engine, choose_best_label of a document with tokens the
\* Vocabulary does not know returns a result.
C10_UnseenTokensAreDropped ==
  /\ ret.op = "choose_best_label" /\ Fitted
  /\ ~(TokensOf(ret.arg) \subseteq Known(dictionary.id2token))
  => ret.ok

Visited == {ret.val[j] : j \in 1..Len(ret.val)}

\* C11: top_words returns an entry for a cluster exactly if the cluster holds
\* a document, whatever the store holds, and visits the clusters by doc_count
\* descending.
C11_TopWordsOnlyPopulated ==
  ret.op = "top_words" /\ ret.ok =>
    /\ Visited = {z \in Range(K) : cluster_doc_count[z] > 0}
    /\ \A j \in 1..Len(ret.val), l \in 1..Len(ret.val) :
         j < l => cluster_doc_count[ret.val[j]] >= cluster_doc_count[ret.val[l]]

ReadOnlyCall == {"choose_best_label", "top_words"}

\* what the call that ret reports returns on the store as it is now
ResultOnThisStore ==
  /\ ret.op = "choose_best_label" /\ ret.ok =>
       /\ ret.val = <<argmax(score(doc2bow(dictionary.id2token, ret.arg)))>>
       /\ ret.prob = <<max(score(doc2bow(dictionary.id2token, ret.arg)), K - 1)>>
  /\ ret.op = "top_words" /\ ret.ok => ret.val = top_index(cluster_doc_count)

\* C12: a call of choose_best_label (with the score inside it) or of top_words
\* leaves doc_count, word_count, word_distribution, number_docs and vocab_size
\* as they are, so that after any such calls the result a call gave is still
\* the result it gives on the store.
C12_InferenceIsReadOnly ==
  /\ [][ret'.op \in ReadOnlyCall =>
          UNCHANGED <<cluster_doc_count, cluster_word_count,
                      cluster_word_distribution, number_docs, vocab_size>>]_vars
  /\ [](ret.op \in ReadOnlyCall => ResultOnThisStore)

\* on a fitted engine of two clusters choose_best_label returned a label that
\* is not the only possible one
C12_Witness ==
  /\ ret.op = "choose_best_label" /\ ret.ok /\ Fitted /\ K = 2
  /\ ret.prob[1].kind = "pos" /\ ret.prob[1].den > ret.prob[1].num

\* C14: the score vector of a document is the reference formula with
\* occurrence weighting: one lN2 term per occurrence of a token and doc_size
\* lD2 factors, doc_size the sum of the occurrence counts.  (Stated for the
\* first fit of an engine of a valid configuration.)
C14_ScoreWeighsOccurrences ==
  pc = "sample" /\ ValidConfiguration /\ nfits = 1 =>
    p = SparseScoreOn(Store(cluster_doc_count, cluster_word_count,
                            cluster_word_distribution, number_docs),
                      Words(corpus[i + 1]))

\* the documents of S that sit under label z
LabelCount(labels, S, z) == Cardinality({j \in S : labels[j] = z})

\* C15: in a pass the documents are visited in corpus order; a document is
\* scored against the store without it and with every other document under
\* its current label (sum(doc_count) = D - 1), the documents visited before it
\* under their new ones; it is added again (sum(doc_count) = D) before the
\* next document is removed.
C15_SequentialPass ==
  /\ [](pc = "sample" =>
          /\ Sum(cluster_doc_count) = D - 1
          /\ \A z \in Range(K) :
               cluster_doc_count[z] = LabelCount(d_z, (1..D) \ {i + 1}, z))
  /\ [](pc = "doc" =>
          /\ Sum(cluster_doc_count) = D
          /\ \A z \in Range(K) : cluster_doc_count[z] = LabelCount(d_z, 1..D, z))
  /\ [][/\ pc = "doc" /\ pc' = "sample" => i' = i
        /\ pc = "sample" /\ pc' = "doc" =>
             /\ i' = i + 1
             /\ \A j \in 1..D : j /= i + 1 => d_z'[j] = d_z[j]]_vars

\* C17: after the initialisation, after every pass and when fit returns,
\* doc_count[z] is the number of documents labelled z and no counter is
\* negative; the transfer count of a pass counts the visits of the pass that
\* changed the label of the visited document.
C17_StoreMatchesAssignment ==
  /\ [](pc = "doc" /\ i \in {0, D} =>
          \A z \in Range(K) : cluster_doc_count[z] = LabelCount(d_z, 1..D, z))
  /\ [](FitReturned =>
          \A z \in Range(K) : cluster_doc_count[z] = LabelCount(ret.val, 1..D, z))
  /\ []((pc = "doc" /\ i \in {0, D}) \/ FitReturned =>
          \A z \in Range(K) :
            /\ cluster_doc_count[z] >= 0 /\ cluster_word_count[z] >= 0
            /\ \A w \in DOMAIN cluster_word_distribution[z] :
                 cluster_word_distribution[z][w] >= 0)
  /\ [][/\ pc = "sample" /\ pc' = "doc" =>
             total_transfers' =
               total_transfers + (IF d_z'[i + 1] /= d_z[i + 1] THEN 1 ELSE 0)
        /\ pc' = "doc" /\ i' = 0 => total_transfers' = 0]_vars

C16_SparseHoldsTheSame ==
  sparse.on /\ (pc \in {"doc", "sample"} \/ FitReturned) =>
    /\ sparse.m_z = cluster_doc_count
    /\ sparse.n_z = cluster_word_count
    /\ \A z \in Range(K) :
         /\ \A w \in Range(vocab_size) :
              Get(sparse.n_z_w[z], dictionary.id2token[w + 1]) =
                cluster_word_distribution[z][w]
         /\ DOMAIN sparse.n_z_w[z] \subseteq Known(dictionary.id2token)
====
